---- MODULE Spec2Model ----
(***************************************************************************)
(* Model of the desired-state reconciliation of docker_swarm_service.py:   *)
(* DockerService (from_ansible_params, compare, build_docker_service) and  *)
(* DockerServiceManager (get_service, run, run_safe), run against a swarm  *)
(* service directory that also has an external writer.                     *)
(*                                                                         *)
(* Python's None is the empty tuple and a set value v is <<v>>, so that an *)
(* unspecified list (None) and a specified empty list (<<<<>>>>) differ.   *)
(***************************************************************************)
EXTENDS Integers, Sequences, FiniteSets, TLC

VARIABLES
    params,          \* module.params (fixed for a playbook task)
    check_mode,      \* module.check_mode
    service,         \* the directory's object for the service name: None or <<[ID, Version, Spec]>>
    nextIndex,       \* the directory's next raft index (ids and versions are drawn from it)
    pc,              \* position of run_safe/run
    retries,         \* DockerServiceManager.retries
    log,             \* the calls made on the directory (and the sleeps), in order
    current_service, \* run(): current_service
    new_service,     \* run(): new_service
    results,         \* what run_safe returned: None or <<[msg, changed, rebuilt, changes, facts]>>
    error,           \* the exception run_safe raised: None or <<kind>>
    extWrites,       \* writes the external writer has made
    runs             \* module invocations so far

vars == <<params, check_mode, service, nextIndex, pc, retries, log,
          current_service, new_service, results, error, extWrites, runs>>

\* ---------------------------------------------------------------- bounds
MaxExtWrites == 3
MaxRuns == 2

\* ------------------------------------------------------- program constants
\* variants of the retry budget: one retry only, and three
Retries_One == 2 - 1
Retries_Three == 2 + 1
\* DockerServiceManager.__init__: self.retries = 2
Retries == 2
\* build_resources / get_service: cores <-> nano cpus
NanoPerCpu == 1000000000

\* ------------------------------------------------------------ Python values
None == <<>>
Some(x) == <<x>>
Val(o) == o[1]
\* "x or zero"
OrElse(o, zero) == IF o = None THEN zero ELSE Val(o)
\* truthiness of an optional collection
Truthy(o, zero) == o # None /\ Val(o) # zero

\* client.networks() as get_networks_names_ids returns it
NetworksNamesIds == << [name |-> "net1", id |-> "id1"] >>

\* ------------------------------------------------------------ DockerService
\* DockerService.__init__
\* An image reference is the sequence of its parts between '@': "alpine" is
\* <<"alpine">> and "alpine@sha256:abc" is <<"alpine", "sha256:abc">>.  A
\* healthcheck is an opaque value; a publish list is a sequence of
\* [published_port, target_port, protocol, mode] with mode None when unset.
DockerService ==
    [mode |-> "replicated", replicas |-> Some(-1), networks |-> None, labels |-> None,
     limit_cpu |-> None, force_update |-> FALSE, service_id |-> 0, service_version |-> 0,
     image |-> <<"">>, user |-> None, publish |-> None,
     healthcheck |-> None, healthcheck_disabled |-> None]

\* variant: the force_update parameter is dropped
from_ansible_params_NoForce(ap, old_service) ==
    [DockerService EXCEPT
        !.image = ap.image,
        !.user = ap.user,
        !.publish = ap.publish,
        !.labels = ap.labels,
        !.limit_cpu = ap.limit_cpu,
        !.mode = ap.mode,
        !.networks = ap.networks,
        !.replicas = IF ap.replicas = -1
                     THEN (IF old_service # None THEN Val(old_service).replicas ELSE Some(1))
                     ELSE Some(ap.replicas)]

\* variant: replicas = -1 always becomes 1
from_ansible_params_SentinelOne(ap, old_service) ==
    [DockerService EXCEPT
        !.image = ap.image,
        !.user = ap.user,
        !.publish = ap.publish,
        !.labels = ap.labels,
        !.limit_cpu = ap.limit_cpu,
        !.mode = ap.mode,
        !.networks = ap.networks,
        !.force_update = ap.force_update,
        !.replicas = IF ap.replicas = -1 THEN Some(1) ELSE Some(ap.replicas)]

\* DockerService.from_ansible_params (old_service is None or <<DockerService>>;
\* ap.image is the image_digest argument; no healthcheck parameter is given, so
\* healthcheck and healthcheck_disabled keep the values of __init__)
from_ansible_params(ap, old_service) ==
    [DockerService EXCEPT
        !.image = ap.image,
        !.user = ap.user,
        !.publish = ap.publish,
        !.labels = ap.labels,
        !.limit_cpu = ap.limit_cpu,
        !.mode = ap.mode,
        !.networks = ap.networks,
        !.force_update = ap.force_update,
        !.replicas = IF ap.replicas = -1
                     THEN (IF old_service # None THEN Val(old_service).replicas ELSE Some(1))
                     ELSE Some(ap.replicas)]

\* variant: every field is recorded as a difference
Diff_Always(cond, name) == <<name>>

\* differences.add(name, ...) under a condition
Diff(cond, name) == IF cond THEN <<name>> ELSE <<>>

\* variant: only a change of networks asks for a rebuild
needs_rebuild_NetworksOnly(self, os) ==
    self.networks # None /\ Val(self.networks) # OrElse(os.networks, <<>>)

\* variant: only a change of mode asks for a rebuild
needs_rebuild_ModeOnly(self, os) ==
    self.mode # os.mode

\* variant: every comparison asks for a rebuild
needs_rebuild_Always(self, os) == TRUE

\* DockerService.compare: needs_rebuild is set with the 'mode' and the 'networks'
\* difference
needs_rebuild(self, os) ==
       self.mode # os.mode
    \/ (self.networks # None /\ Val(self.networks) # OrElse(os.networks, <<>>))

\* variant: force_update does not count as a change
compare_changed_DifferencesOnly(differences, force_update) == differences # <<>>

\* DockerService.compare: "not differences.empty or force_update"
compare_changed(differences, force_update) == (differences # <<>>) \/ force_update

\* variant: the mode of a port is compared whether or not the parameter gives one
publish_item_changed_ModeAlways(publish_item, old_publish_item) ==
    publish_item # old_publish_item

\* has_publish_changed, the body of its loop: the 'mode' key is left out of both
\* items when the parameter's item has no mode
publish_item_changed(publish_item, old_publish_item) ==
    IF publish_item.mode = None
    THEN [publish_item EXCEPT !.mode = None] # [old_publish_item EXCEPT !.mode = None]
    ELSE publish_item # old_publish_item

\* Python's order of the protocol strings
ProtocolLess(a, b) == a = "tcp" /\ b = "udp"

\* publish_sorter = itemgetter('published_port', 'target_port', 'protocol'):
\* the order of the key tuples
publish_sorter_less(a, b) ==
    \/ a.published_port < b.published_port
    \/ a.published_port = b.published_port /\ a.target_port < b.target_port
    \/ /\ a.published_port = b.published_port /\ a.target_port = b.target_port
       /\ ProtocolLess(a.protocol, b.protocol)

\* sorted(l, key=publish_sorter): a stable sort, items with equal keys keep
\* the order they have in l
RECURSIVE sorted(_)
sorted(l) ==
    IF l = <<>> THEN <<>>
    ELSE LET front == sorted(SubSeq(l, 1, Len(l) - 1))
             x == l[Len(l)]
             k == Cardinality({i \in DOMAIN front : ~publish_sorter_less(x, front[i])})
         IN SubSeq(front, 1, k) \o <<x>> \o SubSeq(front, k + 1, Len(front))

\* DockerService.has_publish_changed
has_publish_changed(self, old_publish) ==
    IF self.publish = None THEN FALSE
    ELSE LET old == OrElse(old_publish, <<>>)
         IN IF Len(Val(self.publish)) # Len(old) THEN TRUE
            ELSE LET publish == sorted(Val(self.publish))
                     old_sorted == sorted(old)
                 IN \E i \in DOMAIN publish :
                        publish_item_changed(publish[i], old_sorted[i])

\* variant: the digest of the service's image is never stripped
has_image_changed_NoStrip(self, old_image) == self.image # old_image

\* DockerService.has_image_changed: "'@' not in self.image" is a reference of
\* one part, and old_image.split('@')[0] the first part of old_image
has_image_changed(self, old_image) ==
    LET old == IF Len(self.image) = 1 THEN <<old_image[1]>> ELSE old_image
    IN self.image # old

\* DockerService.has_healthcheck_changed
has_healthcheck_changed(self, old_publish) ==
    IF self.healthcheck_disabled = Some(FALSE) /\ self.healthcheck = None THEN FALSE
    ELSE IF self.healthcheck_disabled = Some(TRUE) /\ old_publish.healthcheck = None THEN FALSE
    ELSE self.healthcheck # old_publish.healthcheck

\* DockerService.compare, the fields in the order the code compares them
compare(self, os) ==
    LET differences ==
               Diff(self.mode # os.mode, "mode")
            \o Diff(self.networks # None /\ Val(self.networks) # OrElse(os.networks, <<>>), "networks")
            \o Diff(self.replicas # os.replicas, "replicas")
            \o Diff(self.labels # None /\ Val(self.labels) # OrElse(os.labels, {}), "labels")
            \o Diff(self.limit_cpu # None /\ self.limit_cpu # os.limit_cpu, "limit_cpu")
            \o Diff(has_publish_changed(self, os.publish), "publish")
            \o Diff(has_image_changed(self, os.image), "image")
            \o Diff(Truthy(self.user, "") /\ self.user # os.user, "user")
            \o Diff(has_healthcheck_changed(self, os), "healthcheck")
        force_update == self.force_update
    IN [changed |-> compare_changed(differences, force_update),
        differences |-> differences,
        need_rebuild |-> needs_rebuild(self, os),
        force_update |-> force_update]

\* build_networks: the id of a network name, None when no network has the name
NetworkId(network_name, docker_networks) ==
    LET found == SelectSeq(docker_networks, LAMBDA n : n.name = network_name)
    IN IF found = <<>> THEN None ELSE Some(found[1].id)

\* build_networks raises 'no docker networks named' unless every name resolves
build_networks_ok(self, docker_networks) ==
    \/ self.networks = None
    \/ \A i \in DOMAIN Val(self.networks) :
          NetworkId(Val(self.networks)[i], docker_networks) # None

\* build_networks: None, or the list of targets
build_networks(self, docker_networks) ==
    IF self.networks = None THEN None
    ELSE Some([i \in DOMAIN Val(self.networks) |->
                  Val(NetworkId(Val(self.networks)[i], docker_networks))])

\* build_service_mode: a global service loses its replicas ON THE OBJECT
build_service_mode(self) ==
    IF self.mode = "global" THEN [self EXCEPT !.replicas = None] ELSE self

\* build_endpoint_spec: the ports dict is keyed by the published port, so a
\* later item of the same published port replaces the earlier one in its place;
\* the mode is sent only when the item has one
build_endpoint_spec(self) ==
    IF self.publish = None THEN <<>>
    ELSE LET p == Val(self.publish)
             Last(i) == CHOOSE j \in DOMAIN p :
                           /\ p[j].published_port = p[i].published_port
                           /\ \A k \in DOMAIN p :
                                 p[k].published_port = p[i].published_port => k <= j
             First(i) == \A k \in 1..(i - 1) : p[k].published_port # p[i].published_port
             firsts == SelectSeq([i \in DOMAIN p |-> i], First)
         IN [n \in DOMAIN firsts |->
                [PublishedPort |-> p[firsts[n]].published_port,
                 TargetPort |-> p[Last(firsts[n])].target_port,
                 Protocol |-> p[Last(firsts[n])].protocol,
                 PublishMode |-> p[Last(firsts[n])].mode]]

\* build_docker_service: [ok, service (self after the call), data (what is sent)]
build_docker_service(self, docker_networks) ==
    LET s == build_service_mode(self)
        networks == build_networks(s, docker_networks)
    IN [ok |-> build_networks_ok(s, docker_networks),
        service |-> s,
        data |-> [Mode |-> IF s.mode = "global" THEN "Global" ELSE "Replicated",
                  Replicas |-> s.replicas,
                  Networks |-> IF build_networks_ok(s, docker_networks) /\ Truthy(networks, <<>>)
                               THEN Val(networks) ELSE <<>>,
                  Labels |-> IF Truthy(s.labels, {}) THEN s.labels ELSE None,
                  NanoCPUs |-> IF s.limit_cpu # None
                               THEN Some(Val(s.limit_cpu) * NanoPerCpu) ELSE None,
                  Image |-> s.image,
                  User |-> s.user,
                  Healthcheck |-> s.healthcheck,
                  Ports |-> build_endpoint_spec(s)]]

\* get_service: the name of a network target, the raw id when it does not resolve
NetworkName(target, networks_names_ids) ==
    LET found == SelectSeq(networks_names_ids, LAMBDA n : n.id = target)
    IN IF found = <<>> THEN target ELSE found[1].name

\* DockerServiceManager.get_service on the directory's object (None: NotFound)
get_service(svc, networks_names_ids) ==
    IF svc = None THEN None
    ELSE LET raw == Val(svc).Spec
         IN Some([DockerService EXCEPT
                !.mode = IF raw.Mode = "Replicated" THEN "replicated" ELSE "global",
                !.replicas = IF raw.Mode = "Replicated" THEN raw.Replicas ELSE Some(-1),
                !.networks = IF raw.Networks # <<>>
                             THEN Some([i \in DOMAIN raw.Networks |->
                                          NetworkName(raw.Networks[i], networks_names_ids)])
                             ELSE None,
                !.labels = raw.Labels,
                !.limit_cpu = IF raw.NanoCPUs # None /\ Val(raw.NanoCPUs) # 0
                              THEN Some(Val(raw.NanoCPUs) \div NanoPerCpu) ELSE None,
                !.image = raw.Image,
                !.user = raw.User,
                !.healthcheck = raw.Healthcheck,
                !.publish = IF raw.Ports # <<>>
                            THEN Some([i \in DOMAIN raw.Ports |->
                                         [protocol |-> raw.Ports[i].Protocol,
                                          mode |-> raw.Ports[i].PublishMode,
                                          published_port |-> raw.Ports[i].PublishedPort,
                                          target_port |-> raw.Ports[i].TargetPort]])
                            ELSE None,
                !.service_version = Val(svc).Version,
                !.service_id = Val(svc).ID])

\* ------------------------------------------------------------------- run()
\* The rows of run(): the values its locals have at the return, and the position
\* of the first directory call of the row ("return": none).

\* variant: the removal falls through to a create
RowRemoved_ThenCreate ==
    [msg |-> "Service removed", changed |-> TRUE, rebuilt |-> FALSE,
     differences |-> <<>>, facts |-> FALSE, next |-> "rebuild_remove"]

\* the service exists, state=absent
RowRemoved ==
    [msg |-> "Service removed", changed |-> TRUE, rebuilt |-> FALSE,
     differences |-> <<>>, facts |-> FALSE, next |-> "remove"]

\* variant: a rebuild is applied as an update in place
RowRebuilt_AsUpdate(c) ==
    [msg |-> "Service rebuilt", changed |-> c.changed, rebuilt |-> TRUE,
     differences |-> c.differences, facts |-> TRUE, next |-> "update"]

\* changed and need_rebuild
RowRebuilt(c) ==
    [msg |-> "Service rebuilt", changed |-> c.changed, rebuilt |-> TRUE,
     differences |-> c.differences, facts |-> TRUE, next |-> "rebuild_remove"]

\* variant: every change is applied as a rebuild
RowUpdated_AsRebuild(c) ==
    [msg |-> "Service updated", changed |-> c.changed, rebuilt |-> FALSE,
     differences |-> c.differences, facts |-> TRUE, next |-> "rebuild_remove"]

\* changed and not need_rebuild
RowUpdated(c) ==
    [msg |-> "Service updated", changed |-> c.changed, rebuilt |-> FALSE,
     differences |-> c.differences, facts |-> TRUE, next |-> "update"]

\* not changed, force_update
RowForced(c) ==
    [msg |-> "Service forcefully updated", changed |-> TRUE, rebuilt |-> FALSE,
     differences |-> c.differences, facts |-> TRUE, next |-> "forced_update"]

\* variant: an unchanged service is updated all the same
RowUnchanged_Updates(c) ==
    [msg |-> "Service unchanged", changed |-> c.changed, rebuilt |-> FALSE,
     differences |-> c.differences, facts |-> TRUE, next |-> "update"]

\* not changed, no force_update
RowUnchanged(c) ==
    [msg |-> "Service unchanged", changed |-> c.changed, rebuilt |-> FALSE,
     differences |-> c.differences, facts |-> TRUE, next |-> "return"]

\* no service, state=absent
RowAbsent ==
    [msg |-> "Service absent", changed |-> FALSE, rebuilt |-> FALSE,
     differences |-> <<>>, facts |-> FALSE, next |-> "return"]

\* variant: a create that does not report a change
RowCreated_NotChanged ==
    [msg |-> "Service created", changed |-> FALSE, rebuilt |-> FALSE,
     differences |-> <<>>, facts |-> TRUE, next |-> "create"]

\* no service, state=present
RowCreated ==
    [msg |-> "Service created", changed |-> TRUE, rebuilt |-> FALSE,
     differences |-> <<>>, facts |-> TRUE, next |-> "create"]

\* the branch run() takes for the service it found and the one it wants
Decide(state, cur, new) ==
    IF cur # None
    THEN IF state = "absent"
         THEN RowRemoved
         ELSE LET c == compare(new, Val(cur))
              IN IF c.changed
                 THEN (IF c.need_rebuild THEN RowRebuilt(c) ELSE RowUpdated(c))
                 ELSE (IF c.force_update THEN RowForced(c) ELSE RowUnchanged(c))
    ELSE IF state = "absent" THEN RowAbsent ELSE RowCreated

\* variant: check mode does not hold the calls back
FirstCall_IgnoresCheckMode(d, check) == d.next

\* "if not module.check_mode" around every create, update and remove
FirstCall(d, check) == IF check THEN "return" ELSE d.next

\* what run() returns: the locals of the branch taken and the facts of new_service as
\* it is at the return
RunResult(ap, cur, new) ==
    LET d == Decide(ap.state, cur, from_ansible_params(ap, cur))
    IN [msg |-> d.msg, changed |-> d.changed, rebuilt |-> d.rebuilt,
        changes |-> d.differences,
        facts |-> IF d.facts THEN Some(new) ELSE None]

\* one entry of the log
Call(op, res, id, ver) == [op |-> op, res |-> res, id |-> id, ver |-> ver]


\* the directory calls of the last attempt: the log after its last inspect, sleeps left out
RECURSIVE LastInspect(_, _)
LastInspect(l, i) ==
    IF i = 0 THEN 0 ELSE IF l[i].op = "inspect" THEN i ELSE LastInspect(l, i - 1)

AttemptCalls ==
    SelectSeq(SubSeq(log, LastInspect(log, Len(log)) + 1, Len(log)),
              LAMBDA c : c.op # "sleep")

Ops(calls) == [i \in DOMAIN calls |-> calls[i].op]

Count(l, op) == Len(SelectSeq(l, LAMBDA c : c.op = op))

\* ------------------------------------------------------------- inputs
States == {"present", "absent"}
Modes == {"replicated", "global"}
ReplicasValues == {-1, 2}
NetworksValues == {None, Some(<<"net1">>), Some(<<"ghost">>)}
LabelsValues == {None, Some({"a=1"})}
LimitCpuValues == {None, Some(0), Some(1)}

\* the runs keep one image and give no user and no publish list
ImageValues == {<<"alpine">>}
UserValues == {None}
PublishValues == {None}

ParamSpace ==
    [state : States, mode : Modes, replicas : ReplicasValues, networks : NetworksValues,
     labels : LabelsValues, limit_cpu : LimitCpuValues, force_update : BOOLEAN,
     image : ImageValues, user : UserValues, publish : PublishValues]

\* the service documents the directory may hold at the start
InitDocs ==
    { [Mode |-> m[1], Replicas |-> m[2], Networks |-> n, Labels |-> r[1], NanoCPUs |-> r[2],
       Image |-> <<"alpine">>, User |-> None, Healthcheck |-> None, Ports |-> <<>>] :
        m \in {<<"Replicated", Some(1)>>, <<"Replicated", Some(2)>>, <<"Global", None>>},
        n \in {<<>>, <<"id1">>},
        r \in {<<None, None>>, <<Some({"a=1"}), Some(NanoPerCpu)>>} }

Init ==
    /\ params \in ParamSpace
    /\ check_mode \in BOOLEAN
    /\ service \in {None} \cup {Some([ID |-> 1, Version |-> 1, Spec |-> d]) : d \in InitDocs}
    /\ nextIndex = 2
    /\ pc = "start"
    /\ retries = Retries
    /\ log = <<>>
    /\ current_service = None
    /\ new_service = None
    /\ results = None
    /\ error = None
    /\ extWrites = 0
    /\ runs = 1

\* --------------------------------------------------------- the directory
\* a document the directory refuses: a negative replica count
InvalidDoc(data) == data.Replicas # None /\ Val(data.Replicas) < 0

\* what client.remove_service(name) can end in
RemoveOutcomes ==
    (IF service = None THEN {"apierror"} ELSE {"ok"}) \cup {"apierror", "exception"}

\* what client.create_service(name, **data) can end in
CreateOutcomes(data) ==
    (IF service # None \/ InvalidDoc(data) THEN {"apierror"} ELSE {"ok"})
        \cup {"apierror", "exception"}

\* what client.update_service(id, version, name, **data) can end in: the
\* directory answers a stale version with 'update out of sequence'
UpdateOutcomes(id, version, data) ==
    (IF service = None \/ Val(service).ID # id THEN {"apierror"}
     ELSE IF Val(service).Version # version THEN {"conflict"}
     ELSE IF InvalidDoc(data) THEN {"apierror"}
     ELSE {"ok"}) \cup {"apierror", "exception"}

\* --------------------------------------------------------------- run_safe
\* run() returns: run_safe returns its result
Return(cur, new) ==
    /\ pc' = "done"
    /\ results' = Some(RunResult(params, cur, new))
    /\ UNCHANGED <<retries, error>>

\* variant: every error is retried while retries are left
ShouldRetry_Always(kind, left) == left > 0

\* variant: every APIError is retried
ShouldRetry_AnyApiError(kind, left) == kind \in {"conflict", "apierror"} /\ left > 0

\* "except APIError as e: if self.retries > 0 and 'update out of sequence' in ..."
\* ("conflict": an APIError with that explanation; "apierror": any other
\* APIError; "exception", "invalid": not an APIError)
ShouldRetry(kind, left) == kind = "conflict" /\ left > 0

\* run() raises `kind` after the directory calls `entries`: run_safe sleeps and
\* goes round again on an 'update out of sequence' APIError while retries are
\* left, and re-raises anything else
Raise(kind, entries) ==
    IF ShouldRetry(kind, retries)
    THEN /\ retries' = retries - 1
         /\ log' = log \o entries \o <<Call("sleep", "ok", 0, 0)>>
         /\ pc' = "start"
         /\ UNCHANGED <<results, error>>
    ELSE /\ log' = log \o entries
         /\ pc' = "failed"
         /\ error' = Some(kind)
         /\ UNCHANGED <<results, retries>>

\* run() up to its first directory write: inspect, normalise, compare, decide
RunStart ==
    /\ pc = "start"
    /\ LET cur == get_service(service, NetworksNamesIds)
           new == from_ansible_params(params, cur)
           d == Decide(params.state, cur, new)
       IN /\ current_service' = cur
          /\ new_service' = Some(new)
          /\ log' = Append(log, IF cur = None
                                THEN Call("inspect", "notfound", 0, 0)
                                ELSE Call("inspect", "ok", Val(cur).service_id,
                                          Val(cur).service_version))
          /\ IF FirstCall(d, check_mode) = "return"
             THEN Return(cur, new)
             ELSE pc' = FirstCall(d, check_mode) /\ UNCHANGED <<results, retries, error>>
    /\ UNCHANGED <<params, check_mode, service, nextIndex, extWrites, runs>>

\* remove_service, at state=absent and as the first half of a rebuild
RemoveService ==
    /\ pc \in {"remove", "rebuild_remove"}
    /\ \E out \in RemoveOutcomes :
          IF out = "ok"
          THEN /\ service' = None
               /\ log' = Append(log, Call("remove", "ok", 0, 0))
               /\ IF pc = "remove"
                  THEN Return(current_service, Val(new_service))
                  ELSE pc' = "rebuild_create" /\ UNCHANGED <<results, retries, error>>
          ELSE /\ Raise(out, <<Call("remove", out, 0, 0)>>)
               /\ UNCHANGED service
    /\ UNCHANGED <<params, check_mode, nextIndex, current_service, new_service,
                   extWrites, runs>>

\* create_service, for a missing service and as the second half of a rebuild
CreateService ==
    /\ pc \in {"create", "rebuild_create"}
    /\ LET b == build_docker_service(Val(new_service), NetworksNamesIds)
       IN /\ new_service' = Some(b.service)
          /\ IF ~b.ok
             THEN /\ Raise("invalid", <<>>)
                  /\ UNCHANGED <<service, nextIndex>>
             ELSE \E out \in CreateOutcomes(b.data) :
                    IF out = "ok"
                    THEN /\ service' = Some([ID |-> nextIndex, Version |-> nextIndex,
                                             Spec |-> b.data])
                         /\ nextIndex' = nextIndex + 1
                         /\ log' = Append(log, Call("create", "ok", 0, 0))
                         /\ Return(current_service, b.service)
                    ELSE /\ Raise(out, <<Call("create", out, 0, 0)>>)
                         /\ UNCHANGED <<service, nextIndex>>
    /\ UNCHANGED <<params, check_mode, current_service, extWrites, runs>>

\* variant: the version presented is one past the version read
update_service_version_Next(old_service) == old_service.service_version + 1

\* update_service: the version presented is old_service.service_version
update_service_version(old_service) == old_service.service_version

\* update_service with the id and version of current_service
UpdateService ==
    /\ pc \in {"update", "forced_update"}
    /\ LET b == build_docker_service(Val(new_service), NetworksNamesIds)
           id == Val(current_service).service_id
           version == update_service_version(Val(current_service))
       IN /\ new_service' = Some(b.service)
          /\ IF ~b.ok
             THEN /\ Raise("invalid", <<>>)
                  /\ UNCHANGED <<service, nextIndex>>
             ELSE \E out \in UpdateOutcomes(id, version, b.data) :
                    IF out = "ok"
                    THEN /\ service' = Some([ID |-> id, Version |-> nextIndex,
                                             Spec |-> b.data])
                         /\ nextIndex' = nextIndex + 1
                         /\ log' = Append(log, Call("update", "ok", id, version))
                         /\ Return(current_service, b.service)
                    ELSE /\ Raise(out, <<Call("update", out, id, version)>>)
                         /\ UNCHANGED <<service, nextIndex>>
    /\ UNCHANGED <<params, check_mode, current_service, extWrites, runs>>

\* the same task is run again: a new DockerServiceManager
NewInvocation ==
    /\ pc \in {"done", "failed"}
    /\ runs < MaxRuns
    /\ runs' = runs + 1
    /\ pc' = "start"
    /\ retries' = Retries
    /\ log' = <<>>
    /\ current_service' = None
    /\ new_service' = None
    /\ results' = None
    /\ error' = None
    /\ UNCHANGED <<params, check_mode, service, nextIndex, extWrites>>

\* ------------------------------------------------------ the external writer
\* the documents another writer may put in place of `spec`
ExtDocs(spec) ==
    {spec} \cup
    (IF spec.Mode = "Replicated"
     THEN {[spec EXCEPT !.Replicas = IF spec.Replicas = Some(1) THEN Some(2) ELSE Some(1)]}
     ELSE {})

\* another client updates the service between this run's inspect and its next
\* directory call (a write before the inspect is a different service at the start)
ExtWrite ==
    /\ pc \notin {"start", "done", "failed"}
    /\ service # None
    /\ extWrites < MaxExtWrites
    /\ \E d \in ExtDocs(Val(service).Spec) :
          service' = Some([Val(service) EXCEPT !.Version = nextIndex, !.Spec = d])
    /\ nextIndex' = nextIndex + 1
    /\ extWrites' = extWrites + 1
    /\ UNCHANGED <<params, check_mode, pc, retries, log, current_service,
                   new_service, results, error, runs>>

\* another client removes the service between this run's inspect and its next
\* directory call
ExtRemove ==
    /\ pc \notin {"start", "done", "failed"}
    /\ service # None
    /\ extWrites < MaxExtWrites
    /\ service' = None
    /\ extWrites' = extWrites + 1
    /\ UNCHANGED <<params, check_mode, nextIndex, pc, retries, log,
                   current_service, new_service, results, error, runs>>

Next ==
    \/ RunStart
    \/ RemoveService
    \/ CreateService
    \/ UpdateService
    \/ NewInvocation
    \/ ExtWrite
    \/ ExtRemove

Spec == Init /\ [][Next]_vars

\* ------------------------------------------------- compare on its own
\* compare as a function of two DockerService objects: new_service is the
\* one of the parameters, current_service the one get_service returned

\* the longest publish list
MaxPublish == 2

PortModes == {None, Some("ingress"), Some("host")}

PublishItem(published_port, target_port, protocol, mode) ==
    [protocol |-> protocol, mode |-> mode,
     published_port |-> published_port, target_port |-> target_port]

\* items that share their sort key and differ in mode, and items whose keys
\* differ in the published port, the target port and the protocol
PublishItems ==
    {PublishItem(80, 80, "tcp", m) : m \in PortModes}
        \cup {PublishItem(81, 80, "tcp", None), PublishItem(80, 81, "tcp", None),
              PublishItem(80, 80, "udp", None)}

PublishLists == UNION {[1..n -> PublishItems] : n \in 0..MaxPublish}

\* a service of image "alpine" with every other field as __init__ leaves it
\* and a replica count
BaseService == [DockerService EXCEPT !.image = <<"alpine">>, !.replicas = Some(1)]

\* pairs that differ in their publish lists only (get_service yields None for
\* a service without ports, never an empty list)
PublishPairs ==
    { <<[BaseService EXCEPT !.publish = p], [BaseService EXCEPT !.publish = q]>> :
        p \in {None} \cup {Some(l) : l \in PublishLists},
        q \in {None} \cup {Some(l) : l \in PublishLists \ {<<>>}} }

DesiredImages == {<<"alpine">>, <<"alpine", "sha256:abc">>, <<"alpine", "sha256:def">>,
                  <<"nginx">>}
ObservedImages == {<<"alpine">>, <<"alpine", "sha256:abc">>, <<"nginx", "sha256:abc">>}
\* (healthcheck, healthcheck_disabled) of the parameters
DesiredHealthchecks ==
    {<<None, None>>, <<None, Some(FALSE)>>, <<None, Some(TRUE)>>,
     <<Some("hc1"), Some(FALSE)>>}

\* pairs that differ in mode, networks, image, user, healthcheck and force_update
FieldPairs ==
    { <<[BaseService EXCEPT !.mode = f.mode, !.networks = f.networks, !.image = f.image,
                            !.user = f.user, !.healthcheck = f.hc[1],
                            !.healthcheck_disabled = f.hc[2],
                            !.force_update = f.force_update],
        [BaseService EXCEPT !.mode = g.mode, !.networks = g.networks, !.image = g.image,
                            !.user = g.user, !.healthcheck = g.healthcheck]>> :
        f \in [mode : Modes, networks : {None, Some(<<"net1">>)}, image : DesiredImages,
               user : {None, Some(""), Some("root")}, hc : DesiredHealthchecks,
               force_update : BOOLEAN],
        g \in [mode : Modes, networks : {None, Some(<<"net1">>)}, image : ObservedImages,
               user : {None, Some("root")}, healthcheck : {None, Some("hc1"), Some("hc2")}] }

\* pairs whose desired networks, labels, limit_cpu and user are not specified,
\* specified with the zero value of their type, or specified with another value,
\* against an observed service that has the field or has not
ZeroPairs ==
    { <<[BaseService EXCEPT !.networks = f.networks, !.labels = f.labels,
                            !.limit_cpu = f.limit_cpu, !.user = f.user],
        [BaseService EXCEPT !.networks = g.networks, !.labels = g.labels,
                            !.limit_cpu = g.limit_cpu, !.user = g.user]>> :
        f \in [networks : {None, Some(<<>>), Some(<<"net1">>)},
               labels : {None, Some({}), Some({"a=1"})},
               limit_cpu : {None, Some(0), Some(1)},
               user : {None, Some(""), Some("root")}],
        g \in [networks : {None, Some(<<"net1">>)}, labels : {None, Some({"a=1"})},
               limit_cpu : {None, Some(1)}, user : {None, Some("root")}] }

InitCompare ==
    /\ \E pair \in PublishPairs \cup FieldPairs \cup ZeroPairs :
          /\ new_service = Some(pair[1])
          /\ current_service = Some(pair[2])
    /\ params = [state |-> "present"]
    /\ check_mode = FALSE
    /\ service = None
    /\ nextIndex = 2
    /\ pc = "start"
    /\ retries = Retries
    /\ log = <<>>
    /\ results = None
    /\ error = None
    /\ extWrites = 0
    /\ runs = 1

\* new_service.compare(current_service)
Compare ==
    /\ pc = "start"
    /\ results' = Some(compare(Val(new_service), Val(current_service)))
    /\ pc' = "compared"
    /\ UNCHANGED <<params, check_mode, service, nextIndex, retries, log,
                   current_service, new_service, error, extWrites, runs>>

NextCompare == Compare

SpecCompare == InitCompare /\ [][NextCompare]_vars

\* ------------------------------------------------------------- exos_vlan
\* exos_vlan.py main(): params are the module's parameters, service the VLANs
\* the device has, current_service the old_config_list read from it,
\* new_service the new_config_list, results the requests generated and log the
\* requests sent.  A VLAN is [name, vlan_id]; a request is [method, vlan_id,
\* name].  What the device does with a request is not part of the module.

\* validate_vlan_id: the highest id
MaxVlanId == 4094
\* the longest aggregate
MaxAggregate == 2

\* validate_vlan_id: "if vlan and not 1 <= int(vlan) <= 4094: fail_json"
validate_vlan_id(vlan) == ~(vlan # 0 /\ ~(1 <= vlan /\ vlan <= MaxVlanId))

\* map_params_to_list: an aggregate item takes the module's parameter for a key
\* it leaves None
CompleteItem(item, ap) ==
    [vlan_id |-> item.vlan_id,
     name |-> IF item.name = None THEN ap.name ELSE item.name,
     state |-> IF item.state = None THEN ap.state ELSE Val(item.state)]

\* map_params_to_list: [ok, list]; not ok when validate_vlan_id failed the module
map_params_to_list(ap) ==
    IF Truthy(ap.aggregate, <<>>)
    THEN LET agg == Val(ap.aggregate)
         IN [ok |-> \A i \in DOMAIN agg : validate_vlan_id(agg[i].vlan_id),
             list |-> [i \in DOMAIN agg |-> CompleteItem(agg[i], ap)]]
    ELSE [ok |-> validate_vlan_id(Val(ap.vlan_id)),
          list |-> <<[vlan_id |-> Val(ap.vlan_id), name |-> ap.name, state |-> ap.state]>>]

\* search_vlan_in_list: the first entry of the id, or None
search_vlan_in_list(vlan_id, lst) ==
    LET found == SelectSeq(lst, LAMBDA o : o.vlan_id = vlan_id)
    IN IF found = <<>> THEN None ELSE Some(found[1])

Request(method, vlan_id, name) == [method |-> method, vlan_id |-> vlan_id, name |-> name]

\* map_diff_to_requests: the body of the loop over new_config_list
RequestsOf(new_config, old_config_list) ==
    LET old_vlan_dict == search_vlan_in_list(new_config.vlan_id, old_config_list)
        name == new_config.name
    IN IF new_config.state = "absent"
       THEN (IF old_vlan_dict # None
             THEN <<Request("DELETE", new_config.vlan_id, None)>> ELSE <<>>)
       ELSE IF old_vlan_dict = None
            THEN (IF Truthy(name, "")
                  THEN <<Request("POST", new_config.vlan_id, name)>> ELSE <<>>)
            ELSE (IF Truthy(name, "") /\ Val(name) # Val(old_vlan_dict).name
                  THEN <<Request("PATCH", new_config.vlan_id, name)>> ELSE <<>>)

\* map_diff_to_requests: the body of the purge loop over old_config_list
PurgeOf(old_config, new_config_list) ==
    IF search_vlan_in_list(old_config.vlan_id, new_config_list) = None
    THEN <<Request("DELETE", old_config.vlan_id, None)>> ELSE <<>>

\* map_diff_to_requests: the requests of the loop over new_config_list, in order
RECURSIVE RequestsOfAll(_, _)
RequestsOfAll(new_config_list, old_config_list) ==
    IF new_config_list = <<>> THEN <<>>
    ELSE RequestsOf(new_config_list[1], old_config_list)
            \o RequestsOfAll(SubSeq(new_config_list, 2, Len(new_config_list)),
                             old_config_list)

\* map_diff_to_requests: the requests of the purge loop over old_config_list
RECURSIVE PurgeOfAll(_, _)
PurgeOfAll(old_config_list, new_config_list) ==
    IF old_config_list = <<>> THEN <<>>
    ELSE PurgeOf(old_config_list[1], new_config_list)
            \o PurgeOfAll(SubSeq(old_config_list, 2, Len(old_config_list)),
                          new_config_list)

\* map_diff_to_requests
map_diff_to_requests(purge, old_config_list, new_config_list) ==
    RequestsOfAll(new_config_list, old_config_list)
        \o (IF purge THEN PurgeOfAll(old_config_list, new_config_list) ELSE <<>>)

\* ids at and beyond both ends of the range
VlanIds == {-1, 0, 1, 2, MaxVlanId + 1}

AggregateItems ==
    [vlan_id : VlanIds, name : {None, Some("a")}, state : {None, Some("absent")}]

Aggregates == UNION {[1..n -> AggregateItems] : n \in 1..MaxAggregate}

\* required_one_of and mutually_exclusive: vlan_id or aggregate, not both
VlanParams ==
    { [vlan_id |-> v, aggregate |-> None, name |-> n, state |-> st, purge |-> pg] :
        v \in {Some(i) : i \in VlanIds \cup {MaxVlanId}}, n \in {None, Some("b")},
        st \in States, pg \in BOOLEAN }
    \cup
    { [vlan_id |-> None, aggregate |-> Some(a), name |-> n, state |-> st, purge |-> pg] :
        a \in Aggregates, n \in {None, Some("b")}, st \in States, pg \in BOOLEAN }

\* the VLANs a device may have
DeviceConfigs ==
    { <<>>,
      <<[name |-> "a", vlan_id |-> 1]>>,
      <<[name |-> "a", vlan_id |-> 2]>>,
      <<[name |-> "b", vlan_id |-> 1], [name |-> "a", vlan_id |-> 2]>> }

InitVlan ==
    /\ params \in VlanParams
    /\ check_mode \in BOOLEAN
    /\ service \in DeviceConfigs
    /\ nextIndex = 2
    /\ pc = "start"
    /\ retries = Retries
    /\ log = <<>>
    /\ current_service = None
    /\ new_service = None
    /\ results = None
    /\ error = None
    /\ extWrites = 0
    /\ runs = 1

\* main(): read the device, validate and list the parameters, generate the
\* requests and send them outside check mode
VlanMain ==
    /\ pc = "start"
    /\ LET old_config_list == service
           new == map_params_to_list(params)
           requests == map_diff_to_requests(params.purge, old_config_list, new.list)
       IN /\ current_service' = Some(old_config_list)
          /\ IF ~new.ok
             THEN /\ pc' = "failed"
                  /\ error' = Some("vlan_id must be between 1 and 4094")
                  /\ UNCHANGED <<new_service, results, log>>
             ELSE /\ pc' = "done"
                  /\ new_service' = Some(new.list)
                  /\ results' = Some([changed |-> requests # <<>>, requests |-> requests])
                  /\ log' = IF check_mode THEN <<>> ELSE requests
                  /\ UNCHANGED error
    /\ UNCHANGED <<params, check_mode, service, nextIndex, retries, extWrites, runs>>

NextVlan == VlanMain

SpecVlan == InitVlan /\ [][NextVlan]_vars

\* ================================================================ properties
\* What the last attempt of run() saw and wanted.  current_service and the
\* log's last inspect belong to the same attempt in every reachable state.
Attempted == log # <<>>
Exists == current_service # None
Desired == from_ansible_params(params, current_service)
Compared == compare(Desired, Val(current_service))
AttemptOps == Ops(AttemptCalls)
AllOk(calls) == \A i \in DOMAIN calls : calls[i].res = "ok"
Mutating == {"create", "update", "remove"}
\* the results of the update calls of this invocation, in order
UpdateResults ==
    LET u == SelectSeq(log, LAMBDA c : c.op = "update")
    IN [i \in DOMAIN u |-> u[i].res]
Reported(changed, rebuilt) ==
    /\ results # None
    /\ error = None
    /\ Val(results).changed = changed
    /\ Val(results).rebuilt = rebuilt

RowUpdate ==
    /\ ~check_mode /\ Exists /\ params.state = "present"
    /\ Compared.changed /\ ~Compared.need_rebuild

\* C1: in the row "exists, present, changed, no rebuild needed" a run outside
\* check mode makes no remove and no create call and at most one update call;
\* when it returns it has made exactly one update call, which succeeded, and
\* reports changed=true, rebuilt=false.
C1_UpdateInPlace ==
    RowUpdate =>
        /\ AttemptOps \in {<<>>, <<"update">>}
        /\ pc = "done" =>
              /\ AttemptOps = <<"update">>
              /\ AllOk(AttemptCalls)
              /\ Reported(TRUE, FALSE)

C1_Witness ==
    /\ RowUpdate /\ pc = "done" /\ runs = 1
    /\ Compared.differences # <<>>
    /\ AttemptOps = <<"update">>

RowRebuild ==
    /\ ~check_mode /\ Exists /\ params.state = "present"
    /\ Compared.changed /\ Compared.need_rebuild

\* C2: in the row "exists, present, changed, rebuild needed" a run outside check
\* mode calls remove first and create only after the remove succeeded, never
\* update; when it returns it has called remove then create, and reports
\* changed=true, rebuilt=true.
C2_RebuildRemoveThenCreate ==
    RowRebuild =>
        /\ AttemptOps \in {<<>>, <<"remove">>, <<"remove", "create">>}
        /\ Len(AttemptCalls) = 2 => AttemptCalls[1].res = "ok"
        /\ pc = "done" =>
              /\ AttemptOps = <<"remove", "create">>
              /\ AllOk(AttemptCalls)
              /\ Reported(TRUE, TRUE)

C2_Witness ==
    /\ RowRebuild /\ pc = "done" /\ runs = 1
    /\ AttemptOps = <<"remove", "create">>
    /\ Val(results).rebuilt

RowCreate ==
    /\ ~check_mode /\ Attempted /\ ~Exists /\ params.state = "present"

\* C3: when the inspect finds no service and the state is present, a run outside
\* check mode makes no remove and no update call and at most one create call;
\* when it returns it has made exactly one create call, which succeeded, and
\* reports changed=true, rebuilt=false.
C3_CreateRow ==
    RowCreate =>
        /\ AttemptOps \in {<<>>, <<"create">>}
        /\ pc = "done" =>
              /\ AttemptOps = <<"create">>
              /\ AllOk(AttemptCalls)
              /\ Reported(TRUE, FALSE)

C3_Witness ==
    /\ RowCreate /\ pc = "done" /\ runs = 1
    /\ AttemptOps = <<"create">>
    /\ service # None

RowRemove ==
    /\ ~check_mode /\ Exists /\ params.state = "absent"

\* C4: when the service exists and the state is absent, a run outside check mode
\* makes no create and no update call and at most one remove call, whatever the
\* other parameters are; when it returns it has made exactly one remove call,
\* which succeeded, and reports changed=true with no field difference.
C4_RemoveRow ==
    RowRemove =>
        /\ AttemptOps \in {<<>>, <<"remove">>}
        /\ pc = "done" =>
              /\ AttemptOps = <<"remove">>
              /\ AllOk(AttemptCalls)
              /\ Reported(TRUE, FALSE)
              /\ Val(results).changes = <<>>

\* a removal whose other parameters differ from the service in mode, networks
\* and limit_cpu and name a network that does not exist
C4_Witness ==
    /\ RowRemove /\ pc = "done" /\ runs = 1
    /\ AttemptOps = <<"remove">>
    /\ params.networks = Some(<<"ghost">>)
    /\ params.mode # Val(current_service).mode
    /\ Compared.differences # <<>>
    /\ service = None

RowNoop ==
    /\ Attempted
    /\ \/ ~Exists /\ params.state = "absent"
       \/ /\ Exists /\ params.state = "present"
          /\ Compared.differences = <<>> /\ ~params.force_update

\* C5: when the service is absent and the state is absent, or the service
\* exists, the state is present, no field differs and force_update is off, the
\* run returns at once, has made no create, update or remove call, and reports
\* changed=false, rebuilt=false.
C5_NoopRows ==
    RowNoop =>
        /\ pc = "done"
        /\ AttemptOps = <<>>
        /\ Reported(FALSE, FALSE)

C5_Witness ==
    /\ RowNoop /\ ~check_mode /\ pc = "done" /\ runs = 1
    /\ Exists
    /\ params.labels # None /\ params.limit_cpu # None /\ params.networks # None

RowForcedUpdate ==
    /\ ~check_mode /\ Exists /\ params.state = "present"
    /\ Compared.differences = <<>> /\ params.force_update

\* C6: when the service exists, the state is present, no field differs and
\* force_update is requested, a run outside check mode makes no remove and no
\* create call and at most one update call; when it returns it has made exactly
\* one update call and reports changed=true, rebuilt=false.
C6_ForcedUpdate ==
    RowForcedUpdate =>
        /\ AttemptOps \in {<<>>, <<"update">>}
        /\ pc \in {"update", "forced_update", "start", "done", "failed"}
        /\ pc = "done" =>
              /\ AttemptOps = <<"update">>
              /\ AllOk(AttemptCalls)
              /\ Reported(TRUE, FALSE)
              /\ Val(results).changes = <<>>

C6_Witness ==
    /\ RowForcedUpdate /\ pc = "done" /\ runs = 1
    /\ AttemptOps = <<"update">>

\* C7: two 'update out of sequence' conflicts are not surfaced: after the
\* second one run_safe has slept twice and goes round again, and when the third
\* update succeeds run_safe returns a result with no error, having made exactly
\* three update calls with one sleep after each failed one (two sleeps).
C7_RetrySuccess ==
    /\ Len(UpdateResults) >= 2 /\ SubSeq(UpdateResults, 1, 2) = <<"conflict", "conflict">> =>
          /\ Len(log) >= 6
          /\ SubSeq(Ops(log), 1, 6) =
                <<"inspect", "update", "sleep", "inspect", "update", "sleep">>
          /\ Len(UpdateResults) = 2 => pc # "failed" /\ error = None
    /\ UpdateResults = <<"conflict", "conflict", "ok">> =>
          /\ pc = "done" /\ results # None /\ error = None
          /\ Ops(log) = <<"inspect", "update", "sleep", "inspect", "update", "sleep",
                          "inspect", "update">>
          /\ Count(log, "update") = 3
          /\ Count(log, "sleep") = 2

C7_Witness ==
    /\ UpdateResults = <<"conflict", "conflict", "ok">>
    /\ pc = "done" /\ results # None /\ Val(results).changed

\* C8: run_safe never starts a fourth attempt; when every update attempt ends in
\* an 'update out of sequence' conflict it stops after exactly three attempts
\* (two sleeps) and raises the conflict of the third; a conflict is raised only
\* then.
C8_RetryExhaustion ==
    /\ Count(log, "inspect") <= 3
    /\ Count(log, "update") <= 3
    /\ UpdateResults = <<"conflict", "conflict", "conflict">> =>
          /\ pc = "failed" /\ error = Some("conflict") /\ results = None
          /\ Ops(log) = <<"inspect", "update", "sleep", "inspect", "update", "sleep",
                          "inspect", "update">>
    /\ error = Some("conflict") =>
          /\ pc = "failed"
          /\ UpdateResults = <<"conflict", "conflict", "conflict">>

C8_Witness ==
    /\ UpdateResults = <<"conflict", "conflict", "conflict">>
    /\ pc = "failed" /\ error = Some("conflict") /\ retries = 0

\* C9: a create, update or remove call that fails with anything but an 'update
\* out of sequence' APIError is the last entry of the log: no sleep and no
\* directory call follows it, and run_safe has raised that error, whatever
\* retries are left.
C9_NoRetryOfOtherErrors ==
    \A i \in DOMAIN log :
        (log[i].op \in Mutating /\ log[i].res \in {"apierror", "exception"}) =>
            /\ i = Len(log)
            /\ pc = "failed"
            /\ error = Some(log[i].res)
            /\ results = None

C9_Witness ==
    /\ pc = "failed" /\ error = Some("apierror") /\ retries = Retries
    /\ log # <<>> /\ log[Len(log)].op = "update" /\ log[Len(log)].res = "apierror"

\* the result the table of run() gives for what the attempt saw, whatever the mode
ExpectedChanged ==
    IF Exists THEN params.state = "absent" \/ Compared.changed
    ELSE params.state = "present"
ExpectedRebuilt ==
    Exists /\ params.state = "present" /\ Compared.changed /\ Compared.need_rebuild
ExpectedChanges ==
    IF Exists /\ params.state = "present" THEN Compared.differences ELSE <<>>

\* C10: in check mode the log never holds a create, update or remove call and
\* the run returns at once without an error; the changed flag, the rebuilt flag
\* and the field differences a run returns are those of the table for the
\* service it inspected, the same in check mode and outside it.
C10_CheckMode ==
    /\ check_mode =>
          /\ \A i \in DOMAIN log : log[i].op \notin Mutating
          /\ Attempted => pc = "done" /\ error = None
    /\ pc = "done" =>
          /\ Val(results).changed = ExpectedChanged
          /\ Val(results).rebuilt = ExpectedRebuilt
          /\ Val(results).changes = ExpectedChanges

C10_Witness ==
    /\ check_mode /\ pc = "done"
    /\ Val(results).changed /\ Val(results).rebuilt
    /\ Val(results).changes = <<"mode", "networks", "replicas", "limit_cpu">>
    /\ service = Some([ID |-> 1, Version |-> 1, Spec |-> Val(service).Spec])

\* what a repeated run of the same task would find and decide right now
Reinspected == get_service(service, NetworksNamesIds)
RepeatDecision == Decide(params.state, Reinspected, from_ansible_params(params, Reinspected))

\* a run outside check mode has returned for state=present with force_update off
\* and no other writer has touched the service
Reconciled ==
    /\ pc = "done" /\ ~check_mode /\ extWrites = 0
    /\ params.state = "present" /\ ~params.force_update

\* C11: after a successful reconcile outside check mode with state=present and
\* no external writer, the re-inspected service compares equal to the desired
\* one on every specified field: a repeated run with the same parameters finds
\* no difference, makes no directory write and reports changed=false.
C11_Convergence ==
    Reconciled =>
        /\ Reinspected # None
        /\ RepeatDecision.differences = <<>>
        /\ ~RepeatDecision.changed
        /\ RepeatDecision.next = "return"

\* a field name is among the recorded differences
Has(differences, name) == \E i \in DOMAIN differences : differences[i] = name

\* the two objects compare was called on, and what it returned
CompareDone == pc = "compared"
CmpSelf == Val(new_service)
CmpOs == Val(current_service)
CmpResult == Val(results)

\* every field compare looks at has the same value in both objects
ComparableEqual ==
    /\ CmpSelf.mode = CmpOs.mode
    /\ CmpSelf.networks = CmpOs.networks
    /\ CmpSelf.replicas = CmpOs.replicas
    /\ CmpSelf.labels = CmpOs.labels
    /\ CmpSelf.limit_cpu = CmpOs.limit_cpu
    /\ CmpSelf.publish = CmpOs.publish
    /\ CmpSelf.image = CmpOs.image
    /\ CmpSelf.user = CmpOs.user
    /\ CmpSelf.healthcheck = CmpOs.healthcheck

\* C12 as stated: when every comparable field of the desired object equals the
\* observed one, compare returns changed=false, needs_rebuild=false and no
\* difference.
C12_ReflexivityAsStated ==
    (CompareDone /\ ComparableEqual) =>
        /\ ~CmpResult.changed
        /\ ~CmpResult.need_rebuild
        /\ CmpResult.differences = <<>>

\* C12: when every comparable field of the desired object equals the observed
\* one, compare returns no difference and needs_rebuild=false, and changed is
\* false unless force_update was requested (then it is true).
C12_Reflexivity ==
    (CompareDone /\ ComparableEqual) =>
        /\ CmpResult.differences = <<>>
        /\ ~CmpResult.need_rebuild
        /\ CmpResult.changed <=> CmpSelf.force_update

C12_Witness ==
    /\ CompareDone /\ ComparableEqual
    /\ CmpSelf.force_update /\ CmpResult.changed
    /\ CmpSelf.user = Some("root") /\ CmpSelf.healthcheck # None
    /\ CmpSelf.networks # None /\ Len(CmpSelf.image) = 2

\* C13: compare returns changed=true exactly when it recorded a difference or
\* force_update was requested, and its force_update flag is the requested one
\* whatever the fields are; the changed flag a present run reports obeys the
\* same equivalence.
C13_ChangedIff ==
    Exists =>
        /\ Compared.changed <=> (Compared.differences # <<>> \/ params.force_update)
        /\ Compared.force_update <=> params.force_update
        /\ (pc = "done" /\ params.state = "present") =>
              (Val(results).changed <=>
                  (Val(results).changes # <<>> \/ params.force_update))

C13_Witness ==
    /\ Exists /\ pc = "done" /\ check_mode /\ params.state = "present"
    /\ params.force_update /\ Compared.differences = <<>>
    /\ Compared.changed /\ Compared.force_update /\ Val(results).changed

ModeDiffers == Exists /\ Desired.mode # Val(current_service).mode

\* C14: whenever the desired mode differs from the observed mode, compare
\* records a 'mode' difference and returns needs_rebuild=true, whatever the
\* other fields are, and a present run that returns reports rebuilt=true.
C14_ModeRebuild ==
    ModeDiffers =>
        /\ Has(Compared.differences, "mode")
        /\ Compared.need_rebuild
        /\ (pc = "done" /\ params.state = "present") => Val(results).rebuilt

\* the mode is the only reason for the rebuild
C14_Witness ==
    /\ ModeDiffers /\ pc = "done" /\ ~check_mode /\ params.state = "present"
    /\ Desired.mode = "global" /\ Desired.networks = None
    /\ Val(results).rebuilt /\ AttemptOps = <<"remove", "create">>

NetworksDiffer ==
    /\ Exists /\ Desired.networks # None
    /\ Val(Desired.networks) # OrElse(Val(current_service).networks, <<>>)

\* C15: whenever the desired networks are specified and differ from the
\* observed ones (none observed counting as the empty list), compare records a
\* 'networks' difference and returns needs_rebuild=true, and a present run makes
\* no update call: it calls remove, then create, and has called both when it
\* returns outside check mode.
C15_NetworksRebuild ==
    NetworksDiffer =>
        /\ Has(Compared.differences, "networks")
        /\ Compared.need_rebuild
        /\ params.state = "present" =>
              /\ AttemptOps \in {<<>>, <<"remove">>, <<"remove", "create">>}
              /\ pc \notin {"update", "forced_update"}
              /\ (pc = "done" /\ ~check_mode) =>
                    AttemptOps = <<"remove", "create">> /\ Val(results).rebuilt

\* the networks are the only reason for the rebuild, and none was observed
C15_Witness ==
    /\ NetworksDiffer /\ pc = "done" /\ ~check_mode /\ params.state = "present"
    /\ Desired.mode = Val(current_service).mode
    /\ Val(current_service).networks = None
    /\ AttemptOps = <<"remove", "create">>

\* the orders a list can be put in
PermutationsOf(l) ==
    IF l = <<>> THEN {<<>>}
    ELSE {[i \in DOMAIN l |-> l[f[i]]] : f \in Permutations(DOMAIN l)}

\* C16: whether compare records a 'publish' difference does not depend on the
\* order of the desired or of the observed publish list, lists with several
\* items of the same (published_port, target_port, protocol) and different
\* modes included.
C16_PublishOrderIndependent ==
    (CompareDone /\ CmpSelf.publish # None) =>
        \A p \in PermutationsOf(Val(CmpSelf.publish)) :
            \A q \in PermutationsOf(OrElse(CmpOs.publish, <<>>)) :
                has_publish_changed([CmpSelf EXCEPT !.publish = Some(p)],
                                    IF CmpOs.publish = None THEN None ELSE Some(q))
                    = Has(CmpResult.differences, "publish")

\* the sort key of a publish item
PublishKey(item) == <<item.published_port, item.target_port, item.protocol>>

\* no two items of the list have the same sort key
UniqueKeys(l) ==
    \A i, j \in DOMAIN l : i # j => PublishKey(l[i]) # PublishKey(l[j])

\* C17: an unspecified desired publish list is never a 'publish' difference;
\* for lists whose items have distinct (published_port, target_port, protocol),
\* a 'publish' difference is recorded exactly when the lengths differ or some
\* desired item has no observed item of the same key that it agrees with, an
\* item without mode agreeing with whatever the observed mode is and an item
\* with a mode only with the same observed mode (not with an unset one).
C17_PublishModeCompat ==
    CompareDone =>
        /\ CmpSelf.publish = None => ~Has(CmpResult.differences, "publish")
        /\ CmpSelf.publish # None =>
              LET p == Val(CmpSelf.publish)
                  o == OrElse(CmpOs.publish, <<>>)
              IN (UniqueKeys(p) /\ UniqueKeys(o)) =>
                    (Has(CmpResult.differences, "publish") <=>
                        \/ Len(p) # Len(o)
                        \/ \E i \in DOMAIN p :
                              ~\E j \in DOMAIN o :
                                  /\ PublishKey(o[j]) = PublishKey(p[i])
                                  /\ p[i].mode = None \/ p[i].mode = o[j].mode)

\* the desired port has no mode, the observed one is published in host mode
C17_Witness ==
    /\ CompareDone
    /\ CmpSelf.publish = Some(<<PublishItem(80, 80, "tcp", None)>>)
    /\ CmpOs.publish = Some(<<PublishItem(80, 80, "tcp", Some("host"))>>)
    /\ ~Has(CmpResult.differences, "publish")

\* C18: a desired image without digest is compared with the observed image
\* stripped of its digest, so "alpine" against "alpine@sha256:abc" is no
\* 'image' difference; a desired image with a digest is compared with the whole
\* observed reference, so "alpine@sha256:def" against "alpine@sha256:abc" is one.
C18_ImageComparison ==
    CompareDone =>
        /\ Has(CmpResult.differences, "image") <=>
              IF Len(CmpSelf.image) = 1
              THEN CmpSelf.image[1] # CmpOs.image[1]
              ELSE CmpSelf.image # CmpOs.image
        /\ (CmpSelf.image = <<"alpine">> /\ CmpOs.image = <<"alpine", "sha256:abc">>) =>
              ~Has(CmpResult.differences, "image")
        /\ (CmpSelf.image = <<"alpine", "sha256:def">>
                /\ CmpOs.image = <<"alpine", "sha256:abc">>) =>
              Has(CmpResult.differences, "image")

C18_Witness ==
    /\ CompareDone
    /\ CmpSelf.image = <<"alpine">> /\ CmpOs.image = <<"alpine", "sha256:abc">>
    /\ ~Has(CmpResult.differences, "image")
    /\ CmpResult.differences = <<>> /\ ~CmpResult.changed

\* C19: with replicas = -1 the desired replica count is 1 when no service was
\* found and the count of the service found otherwise, so compare records no
\* 'replicas' difference, and the service a present run leaves behind has the
\* replica count that was observed.
C19_ReplicaSentinel ==
    (Attempted /\ params.replicas = -1) =>
        /\ ~Exists => Desired.replicas = Some(1)
        /\ Exists =>
              /\ Desired.replicas = Val(current_service).replicas
              /\ ~Has(Compared.differences, "replicas")
              /\ (/\ pc = "done" /\ ~check_mode /\ params.state = "present"
                  /\ service # None /\ Val(service).Spec.Mode = "Replicated") =>
                    Val(service).Spec.Replicas = Val(current_service).replicas

C19_Witness ==
    /\ Exists /\ params.replicas = -1 /\ params.state = "present"
    /\ Val(current_service).replicas = Some(2)
    /\ pc = "done" /\ ~check_mode /\ AttemptOps = <<"update">>
    /\ Val(service).Spec.Replicas = Some(2)

\* the document the pending create or update call sends
PendingData == build_docker_service(Val(new_service), NetworksNamesIds).data
CallPending == pc \in {"create", "rebuild_create", "update", "forced_update"}

\* C20: with replicas = -1 the desired object that is compared never has
\* replicas = -1, whatever was observed (no service, a replicated one, a global
\* one), and no create or update call sends -1 replicas.
C20_SentinelNormalized ==
    /\ (Attempted /\ params.replicas = -1) => Desired.replicas # Some(-1)
    /\ CallPending => PendingData.Replicas # Some(-1)

\* C21: a desired attribute that is not specified records no difference whatever
\* the observed value is, and an attribute specified empty records one against
\* an observed value that is not empty (networks, labels, limit_cpu, publish,
\* user).
C21_UnspecifiedSkipped ==
    CompareDone =>
        /\ CmpSelf.networks = None => ~Has(CmpResult.differences, "networks")
        /\ CmpSelf.labels = None => ~Has(CmpResult.differences, "labels")
        /\ CmpSelf.limit_cpu = None => ~Has(CmpResult.differences, "limit_cpu")
        /\ CmpSelf.publish = None => ~Has(CmpResult.differences, "publish")
        /\ CmpSelf.user = None => ~Has(CmpResult.differences, "user")
        /\ (CmpSelf.networks = Some(<<>>) /\ Truthy(CmpOs.networks, <<>>)) =>
              Has(CmpResult.differences, "networks")
        /\ (CmpSelf.labels = Some({}) /\ Truthy(CmpOs.labels, {})) =>
              Has(CmpResult.differences, "labels")
        /\ (CmpSelf.publish = Some(<<>>) /\ Truthy(CmpOs.publish, <<>>)) =>
              Has(CmpResult.differences, "publish")
        /\ (CmpSelf.user = Some("") /\ Truthy(CmpOs.user, "")) =>
              Has(CmpResult.differences, "user")

\* C22: a desired value that is the zero value of its type (empty list, empty
\* map, 0) records no difference against an observed value that is unset
\* (networks, labels, publish, limit_cpu).
C22_ObservedNullIsZero ==
    CompareDone =>
        /\ (CmpSelf.networks = Some(<<>>) /\ CmpOs.networks = None) =>
              ~Has(CmpResult.differences, "networks")
        /\ (CmpSelf.labels = Some({}) /\ CmpOs.labels = None) =>
              ~Has(CmpResult.differences, "labels")
        /\ (CmpSelf.publish = Some(<<>>) /\ CmpOs.publish = None) =>
              ~Has(CmpResult.differences, "publish")
        /\ (CmpSelf.limit_cpu = Some(0) /\ CmpOs.limit_cpu = None) =>
              ~Has(CmpResult.differences, "limit_cpu")

\* the ids the parameters ask for, directly or in the aggregate
DesiredVlanIds ==
    IF Truthy(params.aggregate, <<>>)
    THEN {Val(params.aggregate)[i].vlan_id : i \in DOMAIN Val(params.aggregate)}
    ELSE {Val(params.vlan_id)}

VlanRan == pc \in {"done", "failed"}

\* C23: a desired VLAN id outside 1..4094 (0 and negative ids included), given
\* directly or in the aggregate, fails the module with 'vlan_id must be between
\* 1 and 4094', and no request is generated or sent.
C23_VlanIdRange ==
    (VlanRan /\ \E v \in DesiredVlanIds : v < 1 \/ v > MaxVlanId) =>
        /\ pc = "failed"
        /\ error = Some("vlan_id must be between 1 and 4094")
        /\ results = None
        /\ log = <<>>

\* the ids of the DELETE requests generated, in order
DeletedIds ==
    LET d == SelectSeq(Val(results).requests, LAMBDA r : r.method = "DELETE")
    IN [i \in DOMAIN d |-> d[i].vlan_id]

DeviceIds == {service[i].vlan_id : i \in DOMAIN service}

\* C24: with purge on, a DELETE is generated for each VLAN of the device whose
\* id is not in the desired list; a VLAN of the desired list is deleted only
\* when its state is absent, and with purge off no VLAN outside the desired list
\* is deleted; no VLAN gets two DELETE requests in one run.
C24_Purge ==
    pc = "done" =>
        LET new == Val(new_service)
            NewIds == {new[i].vlan_id : i \in DOMAIN new}
            Deleted == {DeletedIds[i] : i \in DOMAIN DeletedIds}
        IN /\ params.purge => (DeviceIds \ NewIds) \subseteq Deleted
           /\ \A v \in Deleted \cap NewIds :
                 \E i \in DOMAIN new : new[i].vlan_id = v /\ new[i].state = "absent"
           /\ Deleted \subseteq DeviceIds
           /\ ~params.purge => Deleted \subseteq NewIds
           /\ \A i, j \in DOMAIN DeletedIds : i # j => DeletedIds[i] # DeletedIds[j]

\* C25: every attempt of run_safe begins with an inspect (the log starts with
\* one, an inspect follows every sleep and comes nowhere else), and every update
\* call presents the id and the version that the inspect of its own attempt
\* returned.
C25_VersionHandle ==
    /\ log # <<>> => log[1].op = "inspect"
    /\ \A i \in DOMAIN log :
          /\ (log[i].op = "sleep" /\ i < Len(log)) => log[i + 1].op = "inspect"
          /\ (log[i].op = "inspect" /\ i > 1) => log[i - 1].op = "sleep"
          /\ log[i].op = "update" =>
                LET j == LastInspect(log, i)
                IN /\ j > 0 /\ log[j].res = "ok"
                   /\ log[i].id = log[j].id
                   /\ log[i].ver = log[j].ver

\* an update was refused as out of sequence, and the retry presented the
\* version of its own inspect
C25_Witness ==
    /\ pc = "done" /\ UpdateResults = <<"conflict", "ok">>
    /\ Len(log) = 5 /\ log[5].op = "update"
    /\ log[5].ver = log[4].ver /\ log[5].ver # log[2].ver

\* C26 (as an action): a step of this process that changes or removes the
\* existing service presents the version the service has at that moment, the one
\* of its last inspect; a write of the external writer after the inspect is
\* never overwritten or deleted.
C26_NoStaleMutation ==
    [][(extWrites' = extWrites /\ service # None /\ service' # service) =>
           Val(service).Version = Val(current_service).service_version]_vars

\* a rebuild whose create call failed with an error that is not a conflict
FailedRebuildAt(i) ==
    /\ i > 1
    /\ log[i].op = "create" /\ log[i].res \in {"apierror", "exception"}
    /\ log[i - 1].op = "remove" /\ log[i - 1].res = "ok"

\* C27: when the remove of a rebuild succeeded and the create failed with an
\* error that is not a conflict, the failed create is the last call (no retry,
\* no rollback), run_safe has raised that error, the service is absent, and a
\* new run with the same parameters takes the create row.
C27_FailedRebuild ==
    \A i \in DOMAIN log :
        FailedRebuildAt(i) =>
            /\ i = Len(log)
            /\ pc = "failed" /\ error = Some(log[i].res) /\ results = None
            /\ service = None
            /\ RepeatDecision.msg = "Service created"
            /\ RepeatDecision.next = "create"

C27_Witness ==
    /\ pc = "failed" /\ runs = 1 /\ retries = Retries
    /\ Ops(log) = <<"inspect", "remove", "create">>
    /\ FailedRebuildAt(3) /\ error = Some("apierror")
    /\ service = None

\* C28: a run that ends in a validation error (here: a network name that no
\* network of the directory has) has made no create, update or remove call
\* before the error and is not retried.
C28_ValidationBeforeCalls ==
    error = Some("invalid") =>
        /\ pc = "failed"
        /\ \A i \in DOMAIN log : log[i].op \notin Mutating \cup {"sleep"}

\* C29: the desired object is not changed by the build step: the facts a run
\* returns after a create or an update are the object that was compared, the
\* replicas of a global service included.
C29_DesiredImmutable ==
    (pc = "done" /\ Val(results).facts # None) =>
        Val(Val(results).facts) = Desired

\* C30: compare returns needs_rebuild only together with a 'mode' or a
\* 'networks' difference, hence with changed; a result with rebuilt=true has
\* changed=true; a present run whose differences are in other fields only, or
\* that is forced only, makes no remove call.
C30_RebuildOnlyModeOrNetworks ==
    /\ Exists =>
          /\ Compared.need_rebuild =>
                /\ Has(Compared.differences, "mode") \/ Has(Compared.differences, "networks")
                /\ Compared.changed
          /\ (/\ params.state = "present"
              /\ ~Has(Compared.differences, "mode")
              /\ ~Has(Compared.differences, "networks")) =>
                /\ "remove" \notin {AttemptOps[i] : i \in DOMAIN AttemptOps}
                /\ pc \notin {"remove", "rebuild_remove", "rebuild_create"}
    /\ (pc = "done" /\ Val(results).rebuilt) => Val(results).changed

\* differences in other fields and a force_update, applied in place
C30_Witness ==
    /\ Exists /\ pc = "done" /\ ~check_mode /\ params.state = "present"
    /\ params.force_update
    /\ Has(Compared.differences, "replicas") /\ Has(Compared.differences, "labels")
    /\ ~Compared.need_rebuild /\ ~Val(results).rebuilt
    /\ AttemptOps = <<"update">> /\ service # None

====
